---- MODULE Spec2Model ----
(***************************************************************************)
(* Foodgram backend: the relation registry (Follow, Favourites,            *)
(* ShoppingCart), the recipe write pipeline (RecipeWriteSerializer behind  *)
(* RecipeViewSet) and the shopping-list aggregation, as state machines     *)
(* over the database tables.                                               *)
(*                                                                         *)
(* Names are read as the models declare them.  Where a module refers to a  *)
(* name the models do not declare (Favorites for Favourites, the reverse   *)
(* accessors in_shopping_carts, in_favorites and recipes), it is read as   *)
(* the relation it evidently denotes.                                      *)
(***************************************************************************)
EXTENDS Integers, Sequences, FiniteSets, TLC

VARIABLES db, clock, last, ops, inflight

vars == <<db, clock, last, ops, inflight>>

(***************************************************************************)
(* Bounds and sample domains.                                              *)
(***************************************************************************)
MaxOps == 2           \* requests handled in one behaviour of the write pipeline
MaxRelRecipes == 1    \* recipes created in the registry specifications
MaxRelOps == 5        \* requests answered in one behaviour of the registry
MaxCartRecipes == 3   \* recipes created in the shopping-list specification
MaxCartOps == 6       \* requests answered in one behaviour of the shopping list
MaxInflight == 2      \* relation requests in flight at once
MaxSiteRecipes == 2   \* recipes created in the site specification
MaxSiteOps == 5       \* requests answered in one behaviour of the site
MaxIsoOps == 4        \* requests answered in one behaviour with a stepwise update

MIN_COOKING_TIME == 1
MAX_COOKING_TIME == 32000
RECIPE_MAX_COOKING_TIME == 3200
MIN_AMOUNT == 1

Users == {"u1", "u2"}
Anon == "anon"
Actors == Users \cup {Anon}

Tag == {"t1", "t2"}
UnknownTag == "t9"

\* Ingredient rows: name is unique, (name, measurement_unit) is unique.
Ingredient ==
  [i1 |-> [name |-> "flour", measurement_unit |-> "g"],
   i2 |-> [name |-> "milk",  measurement_unit |-> "ml"],
   i3 |-> [name |-> "salt",  measurement_unit |-> "g"]]

IngredientIds == DOMAIN Ingredient

Names == {"n1", "n2"}
Texts == {"x1", "x2"}
CookingTimes ==
  {MIN_COOKING_TIME - 1, MIN_COOKING_TIME,
   RECIPE_MAX_COOKING_TIME, RECIPE_MAX_COOKING_TIME + 1,
   MAX_COOKING_TIME, MAX_COOKING_TIME + 1}

\* An image payload as Base64ImageField sees it: the number of ";base64,"
\* separators in the string, whether the part after it decodes, and the picture.
Img(sep, ok, pic) == [seps |-> sep, b64 |-> ok, picture |-> pic]
Images == {Img(1, TRUE, "p1"), Img(1, TRUE, "p2"), Img(0, TRUE, "p1"),
           Img(1, FALSE, "p1"), Img(2, TRUE, "p1")}

Ing(i, a) == [id |-> i, amount |-> a]
IngredientLists ==
  { <<>>,
    <<Ing("i1", 1)>>,
    <<Ing("i2", 2)>>,
    <<Ing("i1", 2), Ing("i3", 1)>>,
    <<Ing("i2", 1), Ing("i3", 2)>>,
    <<Ing("i1", 1), Ing("i1", 2)>>,
    <<Ing("i1", 0)>>,
    <<Ing("i2", 0), Ing("i2", 1)>> }

TagLists == { <<>>, <<"t1">>, <<"t2">>, <<"t1", "t2">>, <<"t2", "t2">>,
              <<UnknownTag>> }

Fields == <<"image", "tags", "ingredients", "name", "text", "cooking_time">>

Without(d, f) == [k \in DOMAIN d \ {f} |-> d[k]]
With(d, f, v) == [k \in DOMAIN d \cup {f} |-> IF k = f THEN v ELSE d[k]]
Get(d, f, default) == IF f \in DOMAIN d THEN d[f] ELSE default
EmptyPatch == [k \in {} |-> 0]

BaseDraft ==
  [name |-> "n1", text |-> "x1", cooking_time |-> 1,
   image |-> Img(1, TRUE, "p1"), tags |-> <<"t1">>,
   ingredients |-> <<Ing("i1", 1)>>]

FieldValues(f) ==
  CASE f = "name" -> Names
    [] f = "text" -> Texts
    [] f = "cooking_time" -> CookingTimes
    [] f = "image" -> Images
    [] f = "tags" -> TagLists
    [] f = "ingredients" -> IngredientLists

FieldNames == {Fields[i] : i \in 1..Len(Fields)}

\* Drafts: the base draft, the base draft with one field changed or left out,
\* and two drafts that break two rules at once.
Drafts ==
  {BaseDraft}
  \cup UNION {{With(BaseDraft, f, v) : v \in FieldValues(f)} : f \in FieldNames}
  \cup {Without(BaseDraft, f) : f \in FieldNames}
  \cup {[BaseDraft EXCEPT !.cooking_time = 0,
                          !.ingredients = <<Ing("i1", 1), Ing("i1", 2)>>],
        [BaseDraft EXCEPT !.tags = <<>>, !.ingredients = <<>>]}

\* Patches: nothing, one field, tags with ingredients, tags and ingredients
\* with one more field, and the drafts themselves.
Patches ==
  {EmptyPatch}
  \cup UNION {{With(EmptyPatch, f, v) : v \in FieldValues(f)} : f \in FieldNames}
  \cup {[tags |-> t, ingredients |-> l] : t \in TagLists, l \in IngredientLists}
  \cup UNION {{With([tags |-> <<"t2">>, ingredients |-> l], f, v) :
                  v \in FieldValues(f),
                  l \in {<<Ing("i2", 2)>>, <<Ing("i2", 1), Ing("i3", 2)>>}} :
              f \in {"name", "text", "cooking_time", "image"}}
  \cup Drafts

Methods == {"PUT", "PATCH"}

\* A database fault injected at one persistence step of create.
Faults == {"none", "recipe", "tags", "lines"}

(***************************************************************************)
(* The database.                                                           *)
(***************************************************************************)
EmptyDb ==
  [User |-> Users,
   Recipe |-> [r \in {} |-> 0],
   Recipe_tags |-> {},
   IngredientInRecipe |-> {},
   RecipeIngredient |-> {},
   Follow |-> <<>>,
   Favourites |-> <<>>,
   ShoppingCart |-> <<>>,
   seq |-> [Recipe |-> 1, IngredientInRecipe |-> 1]]

RecipeIdsOf(d) == DOMAIN d.Recipe
TagsOf(d, r) == {p[2] : p \in {q \in d.Recipe_tags : q[1] = r}}
LinesOf(d, r) == {l \in d.IngredientInRecipe : l.recipe = r}

Ok(d) == [db |-> d, exc |-> "none"]
Raise(d, e) == [db |-> d, exc |-> e]

(***************************************************************************)
(* Field validation of RecipeWriteSerializer.  Errors are <<field, code>>. *)
(***************************************************************************)
\* Base64ImageField.to_internal_value: the string must split on ";base64,"
\* into exactly two parts and the second must decode.
Base64ImageField_to_internal_value(data) ==
  IF data.seps = 1 /\ data.b64 THEN {} ELSE {"InvalidImageEncoding"}

\* tags: PrimaryKeyRelatedField(many=True, queryset=Tag.objects.all()).
tags_field(value) ==
  IF \E i \in 1..Len(value) : value[i] \notin Tag THEN {"DoesNotExist"} ELSE {}

validate_tags(value) ==
  IF Len(value) = 0 THEN {"MissingTags"}
  ELSE IF \E i, j \in 1..Len(value) : i < j /\ value[i] = value[j]
       THEN {"DuplicateTags"}
       ELSE {}

\* ingredients: IngredientInRecipeWriteSerializer(many=True); each item's id
\* must be an Ingredient and its amount passes the model field's
\* MinValueValidator(1).
IngredientInRecipeWriteSerializer(value) ==
  IF \E i \in 1..Len(value) : value[i].id \notin IngredientIds
  THEN {"DoesNotExist"}
  ELSE IF \E i \in 1..Len(value) : value[i].amount < MIN_AMOUNT
       THEN {"InvalidAmount"}
       ELSE {}

RECURSIVE ScanIngredients(_, _, _)
ScanIngredients(value, i, seen) ==
  IF i > Len(value) THEN {}
  ELSE IF value[i].id \in seen THEN {"DuplicateIngredients"}
  ELSE IF value[i].amount < 1 THEN {"InvalidAmount"}
  ELSE ScanIngredients(value, i + 1, seen \cup {value[i].id})

validate_ingredients(value) ==
  IF Len(value) < 1 THEN {"MissingIngredients"}
  ELSE ScanIngredients(value, 1, {})

\* cooking_time_field without the upper limit.
cooking_time_field_no_max(value) ==
  IF value < MIN_COOKING_TIME THEN {"InvalidCookingTime"} ELSE {}

\* cooking_time: the model field's validators become the serializer field's
\* min_value and max_value.
cooking_time_field(value) ==
  IF value < MIN_COOKING_TIME \/ value > RECIPE_MAX_COOKING_TIME
  THEN {"InvalidCookingTime"} ELSE {}

validate_cooking_time(cooking_time) ==
  IF cooking_time <= 0 THEN {"InvalidCookingTime"} ELSE {}

\* A field's own validation runs first; validate_<field> runs when it passes.
Then(first, second) == IF first # {} THEN first ELSE second

FieldErrors(f, v) ==
  CASE f = "image" -> Base64ImageField_to_internal_value(v)
    [] f = "tags" -> Then(tags_field(v), validate_tags(v))
    [] f = "ingredients" ->
         Then(IngredientInRecipeWriteSerializer(v), validate_ingredients(v))
    [] f = "cooking_time" -> Then(cooking_time_field(v), validate_cooking_time(v))
    [] OTHER -> {}

\* Serializer.to_internal_value: every declared field, all errors collected.
to_internal_value(data, partial) ==
  UNION {
    IF f \in DOMAIN data THEN {<<f, c>> : c \in FieldErrors(f, data[f])}
    ELSE IF partial THEN {} ELSE {<<f, "Required">>}
    : f \in FieldNames }

\* RecipeWriteSerializer.validate
validate(data) ==
  IF "ingredients" \notin DOMAIN data THEN {<<"ingredients", "MissingIngredients">>}
  ELSE IF "tags" \notin DOMAIN data \/ Len(data.tags) = 0
       THEN {<<"tags", "MissingTags">>}
       ELSE {}

\* Serializer.run_validation: the fields, then the object-level validate.
run_validation(data, partial) ==
  Then(to_internal_value(data, partial), validate(data))

(***************************************************************************)
(* Persistence steps.                                                      *)
(***************************************************************************)
\* recipe.tags.set(tags)
tags_set(d, r, tags) ==
  [d EXCEPT !.Recipe_tags =
     {p \in @ : p[1] # r} \cup {<<r, tags[i]>> : i \in 1..Len(tags)}]

\* recipe.ingredients.clear(): Recipe.ingredients goes through RecipeIngredient.
ingredients_clear(d, r) ==
  [d EXCEPT !.RecipeIngredient = {l \in @ : l.recipe # r}]

\* One INSERT into IngredientInRecipe under unique_ingredient_recipe.
RECURSIVE InsertLines(_, _, _, _)
InsertLines(d, r, rows, i) ==
  IF i > Len(rows) THEN Ok(d)
  ELSE IF \E l \in d.IngredientInRecipe :
            l.recipe = r /\ l.ingredient = rows[i].id
       THEN Raise(d, "IntegrityError")
       ELSE InsertLines(
              [d EXCEPT !.IngredientInRecipe =
                          @ \cup {[id |-> d.seq.IngredientInRecipe, recipe |-> r,
                                   ingredient |-> rows[i].id,
                                   amount |-> rows[i].amount]},
                        !.seq.IngredientInRecipe = @ + 1],
              r, rows, i + 1)

\* transaction_atomic without the rollback.
transaction_atomic_off(before, outcome) == outcome

\* transaction.atomic: an exception leaves the database as it was on entry.
transaction_atomic(before, outcome) ==
  IF outcome.exc = "none" THEN outcome ELSE Raise(before, outcome.exc)

\* IngredientInRecipe.objects.bulk_create(rows)
bulk_create(d, r, rows) == InsertLines(d, r, rows, 1)

\* RecipeWriteSerializer.add_ingredients (@transaction.atomic)
add_ingredients(d, ingredients, r) ==
  transaction_atomic(d, bulk_create(d, r, ingredients))

\* The body of RecipeWriteSerializer.create, step by step; `fault` is the
\* step at which the database fails.
create_body(d, user, vd, now, fault) ==
  LET r == d.seq.Recipe
      d1 == [d EXCEPT !.Recipe =
                        [k \in DOMAIN @ \cup {r} |->
                           IF k = r
                           THEN [author |-> user, name |-> vd.name,
                                 text |-> vd.text,
                                 cooking_time |-> vd.cooking_time,
                                 image |-> vd.image.picture, pub_date |-> now]
                           ELSE @[k]],
                      !.seq.Recipe = @ + 1]
      d2 == tags_set(d1, r, vd.tags)
      lines == bulk_create(d2, r, vd.ingredients)
  IN  IF fault = "recipe" THEN Raise(d, "DatabaseError")
      ELSE IF fault = "tags" THEN Raise(d1, "DatabaseError")
      ELSE IF \E i \in 1..Len(vd.ingredients) : vd.ingredients[i].amount < 1
           THEN Raise(d2, "ValidationError")
      ELSE IF fault = "lines" THEN Raise(d2, "DatabaseError")
      ELSE lines

\* RecipeWriteSerializer.create (@transaction.atomic)
create(d, user, vd, now, fault) ==
  transaction_atomic(d, create_body(d, user, vd, now, fault))

\* update that stamps pub_date on every save, as auto_now would.
update_stamping_pub_date(d, r, user, vd) ==
  IF d.Recipe[r].author # user THEN Raise(d, "PermissionDenied")
  ELSE Ok([d EXCEPT !.Recipe[r].pub_date = 0])

\* RecipeWriteSerializer.update
update(d, r, user, vd) ==
  LET old == d.Recipe[r]
      instance == [old EXCEPT !.name = Get(vd, "name", @),
                              !.text = Get(vd, "text", @),
                              !.cooking_time = Get(vd, "cooking_time", @),
                              !.image = IF "image" \in DOMAIN vd
                                        THEN vd.image.picture ELSE @]
      d1 == IF "tags" \in DOMAIN vd THEN tags_set(d, r, vd.tags) ELSE d
      d2 == IF "ingredients" \in DOMAIN vd THEN ingredients_clear(d1, r) ELSE d1
      d3 == IF "ingredients" \in DOMAIN vd
            THEN add_ingredients(d2, vd.ingredients, r) ELSE Ok(d2)
  IN  IF old.author # user THEN Raise(d, "PermissionDenied")
      ELSE IF d3.exc # "none" THEN d3
      ELSE Ok([d3.db EXCEPT !.Recipe[r] = instance])

(***************************************************************************)
(* Permissions.                                                            *)
(***************************************************************************)
SAFE_METHODS == {"GET", "HEAD", "OPTIONS"}

\* has_permission that lets every caller through.
has_permission_any(method, user) == TRUE

\* AuthorOrReadOnly.has_permission
has_permission(method, user) == method \in SAFE_METHODS \/ user # Anon

\* has_object_permission that lets every authenticated user through.
has_object_permission_any(method, user, obj) == TRUE

\* AuthorOrReadOnly.has_object_permission
has_object_permission(method, user, obj) ==
  IF method = "DELETE" THEN obj.author = user
  ELSE IF method \in {"PATCH", "PUT"} THEN obj.author = user
  ELSE TRUE

(***************************************************************************)
(* Requests of the recipe write pipeline.                                  *)
(***************************************************************************)
\* The last response, with the request it answers.
Reply(op, user, target, status, errors, body) ==
  [op |-> op, user |-> user, target |-> target, status |-> status,
   errors |-> errors, body |-> body, text |-> <<>>]
Response(op, user, target, status, errors) ==
  Reply(op, user, target, status, errors, <<>>)

\* RecipeViewSet.create: the response and the database after it.
RecipeViewSet_create(d, user, draft, now, fault) ==
  IF ~has_permission("POST", user)
  THEN [db |-> d, resp |-> Response("create", user, 0, "NotAuthenticated", {})]
  ELSE LET errors == run_validation(draft, FALSE)
           saved == create(d, user, draft, now, fault)
       IN  IF errors # {}
           THEN [db |-> d, resp |-> Response("create", user, 0, "ValidationFailed", errors)]
           ELSE IF saved.exc # "none"
           THEN [db |-> saved.db,
                 resp |-> Response("create", user, 0, "ValidationFailed",
                                   {<<"detail", saved.exc>>})]
           ELSE [db |-> saved.db,
                 resp |-> Response("create", user, d.seq.Recipe, "Created", {})]

\* RecipeViewSet.update / partial_update (UpdateModelMixin)
RecipeViewSet_update(d, user, r, method, patch) ==
  IF ~has_permission(method, user)
  THEN [db |-> d, resp |-> Response("update", user, r, "NotAuthenticated", {})]
  ELSE IF r \notin RecipeIdsOf(d)
  THEN [db |-> d, resp |-> Response("update", user, r, "NotFound", {})]
  ELSE IF ~has_object_permission(method, user, d.Recipe[r])
  THEN [db |-> d, resp |-> Response("update", user, r, "Forbidden", {})]
  ELSE LET errors == run_validation(patch, method = "PATCH")
           saved == update(d, r, user, patch)
       IN  IF errors # {}
           THEN [db |-> d, resp |-> Response("update", user, r, "ValidationFailed", errors)]
           ELSE IF saved.exc = "PermissionDenied"
           THEN [db |-> saved.db, resp |-> Response("update", user, r, "Forbidden", {})]
           ELSE IF saved.exc # "none"
           THEN [db |-> saved.db, resp |-> Response("update", user, r, "ServerError", {})]
           ELSE [db |-> saved.db, resp |-> Response("update", user, r, "OK", {})]

CreateRecipeFrom(actors, drafts, faults) ==
  \E user \in actors, draft \in drafts, fault \in faults :
    LET out == RecipeViewSet_create(db, user, draft, clock, fault)
    IN  /\ db' = out.db
        /\ last' = out.resp
        /\ clock' = IF out.resp.status = "Created" THEN clock + 1 ELSE clock

CreateRecipe ==
  /\ ops < MaxOps
  /\ CreateRecipeFrom(Actors, Drafts, Faults)
  /\ ops' = ops + 1
  /\ UNCHANGED inflight

UpdateRecipe ==
  /\ ops < MaxOps
  /\ \E user \in Actors, r \in 1..db.seq.Recipe, method \in Methods,
        patch \in Patches :
       LET out == RecipeViewSet_update(db, user, r, method, patch)
       IN  /\ db' = out.db
           /\ last' = out.resp
  /\ ops' = ops + 1
  /\ UNCHANGED <<clock, inflight>>

Init ==
  /\ db = EmptyDb
  /\ clock = 1
  /\ last = Response("none", Anon, 0, "none", {})
  /\ ops = 0
  /\ inflight = [q \in {} |-> 0]

NextRecipe == CreateRecipe \/ UpdateRecipe

SpecRecipe == Init /\ [][NextRecipe]_vars

(***************************************************************************)
(* Properties of the recipe write pipeline (SpecRecipe).                   *)
(***************************************************************************)
Handled == ops' = ops + 1
Author(r) == db.Recipe[r].author
LineView(d, r) == {<<l.ingredient, l.amount>> : l \in LinesOf(d, r)}
Supplied(l) == {<<l[i].id, l[i].amount>> : i \in 1..Len(l)}

\* C4: every stored recipe has at least one tag and at least one ingredient
\* line, no two lines of it name the same ingredient, every amount is at
\* least 1 and its cooking_time lies in [1, 32000].
C4_StoredRecipeWellFormed ==
  \A r \in RecipeIdsOf(db) :
    /\ TagsOf(db, r) # {}
    /\ LinesOf(db, r) # {}
    /\ \A l1, l2 \in LinesOf(db, r) : l1.ingredient = l2.ingredient => l1 = l2
    /\ \A l \in LinesOf(db, r) : l.amount >= 1
    /\ db.Recipe[r].cooking_time >= MIN_COOKING_TIME
    /\ db.Recipe[r].cooking_time <= MAX_COOKING_TIME

\* C4 witness: a recipe that went through a successful create and a
\* successful update and now has several lines.
C4_Witness ==
  /\ last.op = "update" /\ last.status = "OK"
  /\ Cardinality(LinesOf(db, last.target)) >= 2
  /\ db.Recipe[last.target].cooking_time = RECIPE_MAX_COOKING_TIME

\* C5: a createRecipe request that does not answer Created leaves every
\* table as it was.
C5_FailedCreateChangesNothing ==
  [][(Handled /\ last'.op = "create" /\ last'.status # "Created") => db' = db]_vars

\* C5 witness: create failed at a persistence step while recipes existed.
C5_Witness ==
  /\ last.op = "create" /\ last.status = "ValidationFailed"
  /\ <<"detail", "DatabaseError">> \in last.errors
  /\ RecipeIdsOf(db) # {}

\* C6: an updateRecipe request that does not answer OK leaves the recipe's
\* fields, tags and lines (every table) as they were.
C6_FailedUpdateChangesNothing ==
  [][(Handled /\ last'.op = "update" /\ last'.status # "OK") => db' = db]_vars

\* C7: updateRecipe by a user who is not the recipe's author answers
\* Forbidden and changes no row.
C7_NonAuthorUpdateForbidden ==
  [][(/\ Handled /\ last'.op = "update"
      /\ last'.user \in Users
      /\ last'.target \in RecipeIdsOf(db)
      /\ last'.user # Author(last'.target))
     => (last'.status = "Forbidden" /\ db' = db)]_vars

\* C7 witness: a non-author's update was refused.
C7_Witness ==
  /\ last.op = "update" /\ last.status = "Forbidden"
  /\ last.user \in Users
  /\ last.target \in RecipeIdsOf(db)
  /\ last.user # Author(last.target)

\* The transition is the PATCH of recipe r by user with patch p.
IsPatchStep(user, r, p) ==
  /\ Handled /\ last'.op = "update" /\ last'.user = user /\ last'.target = r
  /\ LET out == RecipeViewSet_update(db, user, r, "PATCH", p)
     IN  db' = out.db /\ last' = out.resp

\* C8: a PATCH by the author whose supplied fields are each valid succeeds,
\* whichever fields it leaves out, and every field it leaves out keeps its
\* value.  Stated for the patches that leave out tags or ingredients.
C8_PartialPatchAccepted ==
  [][\A r \in RecipeIdsOf(db), p \in Patches :
       (/\ "tags" \notin DOMAIN p \/ "ingredients" \notin DOMAIN p
        /\ to_internal_value(p, TRUE) = {}
        /\ IsPatchStep(Author(r), r, p))
       => /\ last'.status = "OK"
          /\ "name" \notin DOMAIN p => db'.Recipe[r].name = db.Recipe[r].name
          /\ "text" \notin DOMAIN p => db'.Recipe[r].text = db.Recipe[r].text
          /\ "cooking_time" \notin DOMAIN p =>
               db'.Recipe[r].cooking_time = db.Recipe[r].cooking_time
          /\ "image" \notin DOMAIN p => db'.Recipe[r].image = db.Recipe[r].image
          /\ "tags" \notin DOMAIN p => TagsOf(db', r) = TagsOf(db, r)
          /\ "ingredients" \notin DOMAIN p => LinesOf(db', r) = LinesOf(db, r)]_vars

\* C9: a valid PATCH by the author that supplies ingredients succeeds, the
\* recipe's lines afterwards are exactly the supplied ones, and a line whose
\* ingredient is in both the old and the new set keeps its row id.
C9_IngredientsReplaced ==
  [][\A r \in RecipeIdsOf(db), p \in Patches :
       (/\ "ingredients" \in DOMAIN p
        /\ run_validation(p, TRUE) = {}
        /\ IsPatchStep(Author(r), r, p))
       => /\ last'.status = "OK"
          /\ LineView(db', r) = Supplied(p.ingredients)
          /\ \A l \in LinesOf(db, r) :
               (\E i \in 1..Len(p.ingredients) : p.ingredients[i].id = l.ingredient)
               => \E k \in LinesOf(db', r) :
                    k.id = l.id /\ k.ingredient = l.ingredient]_vars

\* The transition is the create request of user with draft, no fault injected.
IsCreateStep(user, draft) ==
  /\ Handled /\ last'.op = "create" /\ last'.user = user
  /\ LET out == RecipeViewSet_create(db, user, draft, clock, "none")
     IN  db' = out.db /\ last' = out.resp

\* C16: a create whose other fields are valid is accepted for every
\* cooking_time in [1, 32000] and is refused with InvalidCookingTime for
\* every cooking_time below 1 or above 32000.
C16_CookingTimeRange ==
  [][\A user \in Users, v \in CookingTimes :
       IsCreateStep(user, [BaseDraft EXCEPT !.cooking_time = v])
       => IF v >= MIN_COOKING_TIME /\ v <= MAX_COOKING_TIME
          THEN /\ last'.status = "Created"
               /\ db'.Recipe[last'.target].cooking_time = v
          ELSE /\ last'.status = "ValidationFailed"
               /\ <<"cooking_time", "InvalidCookingTime">> \in last'.errors]_vars

\* The validation rules in the order of the specification, and the rules a
\* draft breaks.
RuleOrder ==
  << <<"image", "InvalidImageEncoding">>,
     <<"cooking_time", "InvalidCookingTime">>,
     <<"tags", "MissingTags">>,
     <<"tags", "DuplicateTags">>,
     <<"ingredients", "MissingIngredients">>,
     <<"ingredients", "DuplicateIngredients">>,
     <<"ingredients", "InvalidAmount">> >>

Broken(draft) ==
  LET t == draft.tags
      l == draft.ingredients
  IN  {k \in 1..Len(RuleOrder) :
         CASE k = 1 -> ~(draft.image.seps = 1 /\ draft.image.b64)
           [] k = 2 -> draft.cooking_time < MIN_COOKING_TIME
                       \/ draft.cooking_time > MAX_COOKING_TIME
           [] k = 3 -> Len(t) = 0
           [] k = 4 -> \E i, j \in 1..Len(t) : i < j /\ t[i] = t[j]
           [] k = 5 -> Len(l) = 0
           [] k = 6 -> \E i, j \in 1..Len(l) : i < j /\ l[i].id = l[j].id
           [] k = 7 -> \E i \in 1..Len(l) : l[i].amount < MIN_AMOUNT}

\* Drafts with every field present and every reference known.
CompleteDrafts ==
  {draft \in Drafts :
     /\ DOMAIN draft = FieldNames
     /\ \A i \in 1..Len(draft.tags) : draft.tags[i] \in Tag}

\* C19: a create whose draft breaks one or more rules is refused, and the
\* failure it reports is the first broken rule in the order image,
\* cooking_time, MissingTags, DuplicateTags, MissingIngredients,
\* DuplicateIngredients, InvalidAmount.
C19_FirstFailureReported ==
  [][\A user \in Users, draft \in CompleteDrafts :
       (Broken(draft) # {} /\ IsCreateStep(user, draft))
       => /\ last'.status = "ValidationFailed"
          /\ last'.errors =
               {RuleOrder[CHOOSE k \in Broken(draft) :
                            \A m \in Broken(draft) : k <= m]}]_vars

\* C20: no request changes the author or the pub_date of a stored recipe,
\* and a recipe that appears was created by the request's user at the
\* request's time.
C20_AuthorAndPubDateFixed ==
  [][/\ \A r \in RecipeIdsOf(db) \cap RecipeIdsOf(db') :
          /\ db'.Recipe[r].author = db.Recipe[r].author
          /\ db'.Recipe[r].pub_date = db.Recipe[r].pub_date
     /\ \A r \in RecipeIdsOf(db') \ RecipeIdsOf(db) :
          /\ last'.op = "create" /\ last'.status = "Created"
          /\ last'.target = r
          /\ db'.Recipe[r].author = last'.user
          /\ db'.Recipe[r].pub_date = clock]_vars

\* C20 witness: the author's update went through and changed the name; the
\* recipe still carries its author and its creation time.
C20_Witness ==
  /\ last.op = "update" /\ last.status = "OK"
  /\ db.Recipe[last.target].name = "n2"
  /\ db.Recipe[last.target].author = last.user
  /\ db.Recipe[last.target].pub_date = 1

(***************************************************************************)
(* The relation registry: Follow, Favourites, ShoppingCart.  A table is    *)
(* the sequence of its rows in insertion order.                            *)
(***************************************************************************)
Kinds == {"Follow", "Favourites", "ShoppingCart"}

Table(d, kind) ==
  CASE kind = "Follow" -> d.Follow
    [] kind = "Favourites" -> d.Favourites
    [] kind = "ShoppingCart" -> d.ShoppingCart

\* A Follow row is (user, author); the other rows are (user, recipe).
Row(kind, user, target) ==
  IF kind = "Follow" THEN [user |-> user, author |-> target]
  ELSE [user |-> user, recipe |-> target]

Count(table, row) == Cardinality({i \in 1..Len(table) : table[i] = row})
Exists(table, row) == \E i \in 1..Len(table) : table[i] = row
Rows(table) == {table[i] : i \in 1..Len(table)}

WithTable(d, kind, table) ==
  CASE kind = "Follow" -> [d EXCEPT !.Follow = table]
    [] kind = "Favourites" -> [d EXCEPT !.Favourites = table]
    [] kind = "ShoppingCart" -> [d EXCEPT !.ShoppingCart = table]

\* The constraints each model declares in its Meta: Follow has unique_follow
\* and no_self_follow, ShoppingCart has unique_shopping_list_recipe,
\* Favourites declares none.
UniqueConstraint(kind) == kind \in {"Follow", "ShoppingCart"}
CheckConstraint(kind, row) == kind = "Follow" => row.author # row.user

\* model.objects.create(...): one INSERT under the table's constraints.
objects_create(d, kind, row) ==
  IF (UniqueConstraint(kind) /\ Exists(Table(d, kind), row))
     \/ ~CheckConstraint(kind, row)
  THEN Raise(d, "IntegrityError")
  ELSE Ok(WithTable(d, kind, Append(Table(d, kind), row)))

\* objects_delete that deletes every row with the row's target.
objects_delete_by_target(d, kind, row) ==
  WithTable(d, kind,
            SelectSeq(Table(d, kind),
                      LAMBDA x : IF kind = "Follow" THEN x.author # row.author
                                 ELSE x.recipe # row.recipe))

\* queryset.filter(user=..., target=...).delete()
objects_delete(d, kind, row) ==
  WithTable(d, kind, SelectSeq(Table(d, kind), LAMBDA x : x # row))

\* FavoriteSerializer: UniqueTogetherValidator on (user, recipe).
FavoriteSerializer_validate(d, user, recipe) ==
  IF Exists(d.Favourites, Row("Favourites", user, recipe))
  THEN {<<"non_field_errors", "AlreadyExists">>} ELSE {}

\* ShoppingCartSerializer: the cart's counterpart of FavoriteSerializer.
ShoppingCartSerializer_validate(d, user, recipe) ==
  IF Exists(d.ShoppingCart, Row("ShoppingCart", user, recipe))
  THEN {<<"non_field_errors", "AlreadyExists">>} ELSE {}

\* FollowSerializer.validate.  user.following is the reverse accessor of
\* Follow.author (related_name='following'): the Follow rows whose author is
\* `user`; the code then filters them on author=author.
FollowSerializer_validate(d, user, author) ==
  IF \E row \in Rows(d.Follow) : row.author = user /\ row.author = author
  THEN {<<"non_field_errors", "AlreadyExists">>}
  ELSE IF user = author
       THEN {<<"non_field_errors", "SelfReferenceNotAllowed">>}
       ELSE {}

\* serializer.is_valid() of a POST.  views.py builds FollowCreateSerializer and
\* ShoppingCartSerializer, which serializers.py does not define: the follow
\* validation that serializers.py does define, FollowSerializer.validate,
\* stands for the first, and the counterpart of FavoriteSerializer for the
\* second.
relation_validate(d, kind, user, target) ==
  CASE kind = "Follow" -> FollowSerializer_validate(d, user, target)
    [] kind = "Favourites" -> FavoriteSerializer_validate(d, user, target)
    [] kind = "ShoppingCart" -> ShoppingCartSerializer_validate(d, user, target)

OpName(kind, method) ==
  CASE kind = "Follow" /\ method = "POST" -> "subscribe"
    [] kind = "Follow" /\ method = "DELETE" -> "unsubscribe"
    [] kind = "Favourites" /\ method = "POST" -> "favorite"
    [] kind = "Favourites" /\ method = "DELETE" -> "unfavorite"
    [] kind = "ShoppingCart" /\ method = "POST" -> "shopping_cart"
    [] kind = "ShoppingCart" /\ method = "DELETE" -> "shopping_cart_remove"

AddOps == {OpName(k, "POST") : k \in Kinds}
KindOf(op) == CHOOSE k \in Kinds : op \in {OpName(k, "POST"), OpName(k, "DELETE")}

\* get_object_or_404 on the target: a User for subscribe, a Recipe otherwise.
TargetExists(d, kind, target) ==
  IF kind = "Follow" THEN target \in d.User ELSE target \in RecipeIdsOf(d)

\* The part of a POST up to and including serializer.is_valid(): the
\* response it ends with, or "pass".
relation_check(d, kind, user, target) ==
  LET op == OpName(kind, "POST")
  IN  IF user = Anon THEN Response(op, user, target, "NotAuthenticated", {})
      ELSE IF ~TargetExists(d, kind, target)
      THEN Response(op, user, target, "NotFound", {})
      ELSE IF relation_validate(d, kind, user, target) # {}
      THEN Response(op, user, target, "ValidationFailed",
                    relation_validate(d, kind, user, target))
      ELSE Response(op, user, target, "pass", {})

\* serializer.save() and the response after it.
relation_save(d, kind, user, target) ==
  LET op == OpName(kind, "POST")
      saved == objects_create(d, kind, Row(kind, user, target))
  IN  IF saved.exc # "none"
      THEN [db |-> saved.db, resp |-> Response(op, user, target, "ServerError", {})]
      ELSE [db |-> saved.db, resp |-> Response(op, user, target, "Created", {})]

\* UserViewSet.subscribe and RecipeViewSet.recipe_action, POST.
relation_post(d, kind, user, target) ==
  LET checked == relation_check(d, kind, user, target)
  IN  IF checked.status # "pass" THEN [db |-> d, resp |-> checked]
      ELSE relation_save(d, kind, user, target)

\* UserViewSet.subscribe and RecipeViewSet.recipe_action, DELETE.
relation_delete(d, kind, user, target) ==
  LET op == OpName(kind, "DELETE")
      row == Row(kind, user, target)
  IN  IF user = Anon
      THEN [db |-> d, resp |-> Response(op, user, target, "NotAuthenticated", {})]
      ELSE IF ~TargetExists(d, kind, target)
      THEN [db |-> d, resp |-> Response(op, user, target, "NotFound", {})]
      ELSE IF ~Exists(Table(d, kind), row)
      THEN [db |-> d,
            resp |-> Response(op, user, target, "ValidationFailed",
                              {<<"errors", "NotInRelation">>})]
      ELSE [db |-> objects_delete(d, kind, row),
            resp |-> Response(op, user, target, "NoContent", {})]

Targets(d, kind) == IF kind = "Follow" THEN Users ELSE 1..d.seq.Recipe

\* A recipe for the registry to refer to.
SeedRecipe(actors, drafts, bound) ==
  /\ Cardinality(RecipeIdsOf(db)) < bound
  /\ CreateRecipeFrom(actors, drafts, {"none"})

AddRelationOf(kinds) ==
  \E kind \in kinds, user \in Actors :
    \E target \in Targets(db, kind) :
      LET out == relation_post(db, kind, user, target)
      IN  db' = out.db /\ last' = out.resp

RemoveRelationOf(kinds) ==
  \E kind \in kinds, user \in Actors :
    \E target \in Targets(db, kind) :
      LET out == relation_delete(db, kind, user, target)
      IN  db' = out.db /\ last' = out.resp

AddRelation == AddRelationOf(Kinds)
RemoveRelation == RemoveRelationOf(Kinds)

\* Requests handled one after another.
NextRel ==
  /\ ops < MaxRelOps
  /\ ops' = ops + 1
  /\ UNCHANGED inflight
  /\ \/ SeedRecipe(Users, {BaseDraft}, MaxRelRecipes)
     \/ AddRelation /\ UNCHANGED clock
     \/ RemoveRelation /\ UNCHANGED clock

SpecRel == Init /\ [][NextRel]_vars

\* Requests that overlap: a POST is validated in one step and saved in a
\* later one, and other requests run in between.
Slots == 1..MaxInflight

BeginAdd ==
  \E q \in Slots \ DOMAIN inflight, kind \in Kinds, user \in Users :
    \E target \in Targets(db, kind) :
      LET checked == relation_check(db, kind, user, target)
      IN  IF checked.status = "pass"
          THEN /\ inflight' = [k \in DOMAIN inflight \cup {q} |->
                                 IF k = q
                                 THEN [kind |-> kind, user |-> user,
                                       target |-> target]
                                 ELSE inflight[k]]
               /\ UNCHANGED <<db, last, ops>>
          ELSE /\ last' = checked
               /\ ops' = ops + 1
               /\ UNCHANGED <<db, inflight>>

FinishAdd ==
  \E q \in DOMAIN inflight :
    LET out == relation_save(db, inflight[q].kind, inflight[q].user,
                             inflight[q].target)
    IN  /\ db' = out.db
        /\ last' = out.resp
        /\ ops' = ops + 1
        /\ inflight' = [k \in DOMAIN inflight \ {q} |-> inflight[k]]

NextConc ==
  \/ /\ ops < MaxRelOps
     /\ SeedRecipe(Users, {BaseDraft}, MaxRelRecipes)
     /\ ops' = ops + 1
     /\ UNCHANGED inflight
  \/ /\ ops + Cardinality(DOMAIN inflight) < MaxRelOps
     /\ BeginAdd
     /\ UNCHANGED clock
  \/ FinishAdd /\ UNCHANGED clock
  \/ /\ ops < MaxRelOps
     /\ RemoveRelation
     /\ ops' = ops + 1
     /\ UNCHANGED <<clock, inflight>>

SpecConc == Init /\ [][NextConc]_vars

(***************************************************************************)
(* Properties of the relation registry.                                    *)
(***************************************************************************)
AllRows(d, kind) ==
  IF kind = "Follow"
  THEN {Row(kind, u, a) : u \in Users, a \in Users}
  ELSE {Row(kind, u, r) : u \in Users, r \in RecipeIdsOf(d)}

NoDuplicateRows(d) ==
  \A kind \in Kinds : \A row \in AllRows(d, kind) : Count(Table(d, kind), row) <= 1

IsAlreadyExists(resp) ==
  resp.status = "ValidationFailed"
  /\ resp.errors = {<<"non_field_errors", "AlreadyExists">>}

\* C1: whatever the interleaving of concurrent addRelation requests, no
\* table holds two rows for one pair, and a request that did not create the
\* row is answered with a validation failure (AlreadyExists), never with a
\* server fault.
C1_ConcurrentAddOnce ==
  /\ NoDuplicateRows(db)
  /\ last.op \in AddOps => last.status # "ServerError"

RemoveOps == {OpName(k, "DELETE") : k \in Kinds}

\* The answers that say the pair, or its target, is not there: the 404 of
\* get_object_or_404, and the 400 whose message says the pair is not stored.
IsNotFound(resp) ==
  \/ resp.status = "NotFound"
  \/ /\ resp.status = "ValidationFailed"
     /\ resp.errors = {<<"errors", "NotInRelation">>}

\* C15: a removeRelation for a pair that is not stored answers NotFound and
\* changes nothing; for a pair that is stored it deletes that one row and no
\* other row of any table, after which the pair is not stored; and an
\* addRelation for the pair right after its removal succeeds.
C15_RemoveRelation ==
  [][/\ (Handled /\ last'.op \in RemoveOps /\ last'.user \in Users) =>
          LET kind == KindOf(last'.op)
              row == Row(kind, last'.user, last'.target)
          IN  IF ~Exists(Table(db, kind), row)
              THEN IsNotFound(last') /\ db' = db
              ELSE /\ last'.status = "NoContent"
                   /\ ~Exists(Table(db', kind), row)
                   /\ Len(Table(db', kind)) = Len(Table(db, kind)) - 1
                   /\ Table(db', kind) =
                        SelectSeq(Table(db, kind), LAMBDA x : x # row)
                   /\ db' = WithTable(db, kind, Table(db', kind))
     /\ (/\ last.op \in RemoveOps /\ last.status = "NoContent"
         /\ Handled /\ last'.op = OpName(KindOf(last.op), "POST")
         /\ last'.user = last.user /\ last'.target = last.target)
        => /\ last'.status = "Created"
           /\ Exists(Table(db', KindOf(last.op)),
                     Row(KindOf(last.op), last.user, last.target))]_vars

\* C15 witness: a user's favourite was removed while another user's
\* favourite of the same recipe stayed.
C15_Witness ==
  /\ last.op = "unfavorite" /\ last.status = "NoContent"
  /\ Len(db.Favourites) = 1
  /\ db.Favourites[1].user # last.user
  /\ db.Favourites[1].recipe = last.target

(***************************************************************************)
(* The shopping list: RecipeViewSet.download_shopping_cart.                *)
(***************************************************************************)
\* Ordinal comparison of the ingredient names in use.
NameOrd == [flour |-> 1, milk |-> 2, salt |-> 3]

\* The rows of a set of IngredientInRecipe rows in id order.
RECURSIVE ById(_)
ById(lines) ==
  IF lines = {} THEN <<>>
  ELSE LET first == CHOOSE l \in lines : \A m \in lines : l.id <= m.id
       IN  <<first>> \o ById(lines \ {first})

\* .filter(recipe__in_shopping_carts__user=user): IngredientInRecipe joined
\* with ShoppingCart on the recipe, one joined row per cart row and line.
RECURSIVE JoinCart(_, _, _, _)
JoinCart(d, cart, user, i) ==
  IF i > Len(cart) THEN <<>>
  ELSE (IF cart[i].user = user THEN ById(LinesOf(d, cart[i].recipe)) ELSE <<>>)
       \o JoinCart(d, cart, user, i + 1)

\* .values('ingredient__name', 'ingredient__measurement_unit'): the group key.
values(line) ==
  <<Ingredient[line.ingredient].name, Ingredient[line.ingredient].measurement_unit>>

\* .annotate(total=Sum('amount')): the groups in the order they are met,
\* each with its running total.
RECURSIVE annotate_Sum(_, _, _)
annotate_Sum(joined, i, groups) ==
  IF i > Len(joined) THEN groups
  ELSE LET key == values(joined[i])
           at == {k \in 1..Len(groups) : groups[k].key = key}
       IN  IF at = {}
           THEN annotate_Sum(joined, i + 1,
                             Append(groups, [key |-> key,
                                             total |-> joined[i].amount]))
           ELSE annotate_Sum(joined, i + 1,
                             [groups EXCEPT ![CHOOSE k \in at : TRUE].total =
                                              @ + joined[i].amount])

\* order_by_name that leaves the groups in the order they were met.
order_by_none(groups) == groups

\* .order_by('ingredient__name')
RECURSIVE order_by_name(_)
order_by_name(groups) ==
  IF Len(groups) = 0 THEN <<>>
  ELSE LET k == CHOOSE a \in 1..Len(groups) :
                  \A b \in 1..Len(groups) :
                    NameOrd[groups[a].key[1]] <= NameOrd[groups[b].key[1]]
           rest == [j \in 1..(Len(groups) - 1) |->
                      IF j < k THEN groups[j] ELSE groups[j + 1]]
       IN  <<groups[k]>> \o order_by_name(rest)

\* The queryset of download_shopping_cart, evaluated.
shopping_list(d, cart, user) ==
  LET sorted == order_by_name(annotate_Sum(JoinCart(d, cart, user, 1), 1, <<>>))
  IN  [i \in 1..Len(sorted) |->
         [ingredient__name |-> sorted[i].key[1],
          ingredient__measurement_unit |-> sorted[i].key[2],
          total |-> sorted[i].total]]

\* A text is the sequence of the lines that '\n'.join puts together.  The
\* literals are written in ASCII: the Russian phrases transliterated, the em
\* dash as "--".
HEADER == "Spisok pokupok sostavlen: "
PRODUCTS_TITLE == "Spisok produktov:"
RECIPES_TITLE == "Recepty, dlya kotoryh sostavlen spisok pokupok:"
NO_INGREDIENTS == "Net ingredientov"
NO_RECIPES == "Net receptov"
EM_DASH == "--"

\* str.capitalize on the ingredient names in use.
capitalize == [flour |-> "Flour", milk |-> "Milk", salt |-> "Salt"]

\* The text download_shopping_cart builds: for each item of the queryset the
\* line f"{name} ({unit}) - {total}".
download_text(ingredients) ==
  [i \in 1..Len(ingredients) |->
     ingredients[i].ingredient__name \o " ("
       \o ingredients[i].ingredient__measurement_unit \o ") - "
       \o ToString(ingredients[i].total)]

\* utils.render_shopping_list(ingredients, recipes); no view calls it.
render_shopping_list(ingredients, recipes, current_date) ==
  IF \E i \in 1..Len(ingredients) :
       ~({"ingredient__name", "total_amount", "ingredient__measurement_unit"}
            \subseteq DOMAIN ingredients[i])
  THEN [exc |-> "ValueError", text |-> <<>>]
  ELSE IF \E j \in 1..Len(recipes) : "name" \notin DOMAIN recipes[j]
  THEN [exc |-> "ValueError", text |-> <<>>]
  ELSE LET ingredients_section ==
             IF Len(ingredients) > 0
             THEN [i \in 1..Len(ingredients) |->
                     ToString(i) \o ". "
                       \o capitalize[ingredients[i].ingredient__name]
                       \o " " \o EM_DASH \o " "
                       \o ToString(ingredients[i].total_amount)
                       \o " " \o ingredients[i].ingredient__measurement_unit]
             ELSE <<NO_INGREDIENTS>>
           recipes_section ==
             IF Len(recipes) > 0
             THEN [j \in 1..Len(recipes) |->
                     ToString(j) \o ". " \o recipes[j].name]
             ELSE <<NO_RECIPES>>
       IN  [exc |-> "none",
            text |-> <<HEADER \o current_date, PRODUCTS_TITLE>>
                       \o ingredients_section
                       \o <<"", RECIPES_TITLE>>
                       \o recipes_section]

\* RecipeViewSet.download_shopping_cart
download_shopping_cart(d, user) ==
  IF user = Anon
  THEN Response("download_shopping_cart", user, 0, "NotAuthenticated", {})
  ELSE LET ingredients == shopping_list(d, d.ShoppingCart, user)
       IN  [Reply("download_shopping_cart", user, 0, "OK", {}, ingredients)
              EXCEPT !.text = download_text(ingredients)]

\* Download that also empties the caller's cart.
Download_emptying_cart ==
  \E user \in Actors :
    /\ last' = download_shopping_cart(db, user)
    /\ db' = [db EXCEPT !.ShoppingCart = SelectSeq(@, LAMBDA x : x.user # user)]

Download ==
  \E user \in Actors :
    /\ last' = download_shopping_cart(db, user)
    /\ UNCHANGED db

CartDrafts ==
  {[BaseDraft EXCEPT !.ingredients = l] :
     l \in {<<Ing("i1", 2), Ing("i3", 1)>>, <<Ing("i2", 1), Ing("i3", 2)>>,
            <<Ing("i1", 1)>>}}

NextCart ==
  /\ ops < MaxCartOps
  /\ ops' = ops + 1
  /\ UNCHANGED inflight
  /\ \/ SeedRecipe({"u1"}, CartDrafts, MaxCartRecipes)
     \/ AddRelationOf({"ShoppingCart"}) /\ UNCHANGED clock
     \/ RemoveRelationOf({"ShoppingCart"}) /\ UNCHANGED clock
     \/ Download /\ UNCHANGED clock

SpecCart == Init /\ [][NextCart]_vars

(***************************************************************************)
(* Properties of the shopping list.                                        *)
(***************************************************************************)
CartRecipes(d, user) == {row.recipe : row \in {x \in Rows(d.ShoppingCart) : x.user = user}}
CartLines(d, user) == {l \in d.IngredientInRecipe : l.recipe \in CartRecipes(d, user)}

RECURSIVE SumAmounts(_)
SumAmounts(lines) ==
  IF lines = {} THEN 0
  ELSE LET l == CHOOSE x \in lines : TRUE
       IN  l.amount + SumAmounts(lines \ {l})

\* The orders in which the same cart rows could have been inserted.
Reorderings(cart) ==
  {s \in [1..Len(cart) -> Rows(cart)] :
     \A row \in Rows(cart) : Count(s, row) = Count(cart, row)}

\* C10: the shopping list answered to a user has exactly one row for each
\* (name, unit) pair among the lines of the recipes in the user's cart, the
\* row's total is the sum of the amounts of those lines, the rows are in
\* ascending name order, and the list is the same for every order in which
\* the cart's rows were inserted.
C10_ShoppingListAggregates ==
  (last.op = "download_shopping_cart" /\ last.status = "OK") =>
    LET rows == last.body
        lines == CartLines(db, last.user)
        KeyOf(row) == <<row.ingredient__name, row.ingredient__measurement_unit>>
    IN  /\ {KeyOf(rows[i]) : i \in 1..Len(rows)} = {values(l) : l \in lines}
        /\ \A i, j \in 1..Len(rows) : KeyOf(rows[i]) = KeyOf(rows[j]) => i = j
        /\ \A i \in 1..Len(rows) :
             rows[i].total =
               SumAmounts({l \in lines : values(l) = KeyOf(rows[i])})
        /\ \A i, j \in 1..Len(rows) :
             i < j => NameOrd[rows[i].ingredient__name]
                        < NameOrd[rows[j].ingredient__name]
        /\ \A cart \in Reorderings(db.ShoppingCart) :
             shopping_list(db, cart, last.user) = rows

\* C10 witness: a list of three rows built from two recipes in the cart, one
\* row summing lines of both.
C10_Witness ==
  /\ last.op = "download_shopping_cart" /\ last.status = "OK"
  /\ Cardinality(CartRecipes(db, last.user)) = 2
  /\ Len(last.body) = 3
  /\ \E i \in 1..Len(last.body) :
       Cardinality({l \in CartLines(db, last.user) :
                      values(l)[1] = last.body[i].ingredient__name}) = 2

LinesIn(text) == {text[i] : i \in 1..Len(text)}

\* C11: the report answered to a user whose cart is empty is not a failure
\* and states that there are no ingredients and no recipes.
C11_EmptyCartReport ==
  (/\ last.op = "download_shopping_cart" /\ last.user \in Users
   /\ CartRecipes(db, last.user) = {})
  => /\ last.status = "OK"
     /\ NO_INGREDIENTS \in LinesIn(last.text)
     /\ NO_RECIPES \in LinesIn(last.text)

\* The line 'N. Name -- amount unit' of an aggregated row.
ReportLine(n, row) ==
  ToString(n) \o ". " \o capitalize[row.ingredient__name] \o " " \o EM_DASH
    \o " " \o ToString(row.total) \o " " \o row.ingredient__measurement_unit

\* C12: the report lists the aggregated rows in sorted order, numbered from
\* 1, each as 'N. Name -- amount unit', and after them a numbered section
\* with every distinct recipe of the user's cart exactly once.
C12_ReportFormat ==
  (/\ last.op = "download_shopping_cart" /\ last.status = "OK"
   /\ CartRecipes(db, last.user) # {})
  => LET rows == last.body
         text == last.text
         n == Len(rows)
         recipes == CartRecipes(db, last.user)
         m == Cardinality(recipes)
     IN  \E a \in 1..Len(text) :
           /\ a + n - 1 <= Len(text)
           /\ \A i \in 1..n : text[a + i - 1] = ReportLine(i, rows[i])
           /\ \E b \in (a + n)..Len(text) :
                /\ b + m - 1 <= Len(text)
                /\ \E f \in [1..m -> recipes] :
                     /\ \A j, k \in 1..m : f[j] = f[k] => j = k
                     /\ \A j \in 1..m :
                          text[b + j - 1] =
                            ToString(j) \o ". " \o db.Recipe[f[j]].name

(***************************************************************************)
(* Deletion.  Every ForeignKey of the models is on_delete=CASCADE.         *)
(***************************************************************************)
\* Recipe_delete that removes the Recipe rows and nothing that refers to them.
Recipe_delete_no_cascade(d, rs) ==
  [d EXCEPT !.Recipe = [k \in (DOMAIN d.Recipe) \ rs |-> d.Recipe[k]]]

\* Deleting the recipes rs: the rows of Recipe.tags, IngredientInRecipe,
\* RecipeIngredient, ShoppingCart and Favourites that refer to them go too.
Recipe_delete(d, rs) ==
  [d EXCEPT !.Recipe = [k \in (DOMAIN d.Recipe) \ rs |-> d.Recipe[k]],
            !.Recipe_tags = {p \in @ : p[1] \notin rs},
            !.IngredientInRecipe = {l \in @ : l.recipe \notin rs},
            !.RecipeIngredient = {l \in @ : l.recipe \notin rs},
            !.ShoppingCart = SelectSeq(@, LAMBDA x : x.recipe \notin rs),
            !.Favourites = SelectSeq(@, LAMBDA x : x.recipe \notin rs)]

\* Deleting the user u: the recipes u authored (Recipe.author), the Follow
\* rows with u as user or as author, and u's ShoppingCart and Favourites rows
\* go too.
User_delete(d, u) ==
  LET authored == {r \in RecipeIdsOf(d) : d.Recipe[r].author = u}
      d1 == Recipe_delete(d, authored)
  IN  [d1 EXCEPT !.User = @ \ {u},
                 !.Follow = SelectSeq(@, LAMBDA x : x.user # u /\ x.author # u),
                 !.ShoppingCart = SelectSeq(@, LAMBDA x : x.user # u),
                 !.Favourites = SelectSeq(@, LAMBDA x : x.user # u)]

\* RecipeViewSet.destroy (ModelViewSet) behind AuthorOrReadOnly.
RecipeViewSet_destroy(d, user, r) ==
  IF ~has_permission("DELETE", user)
  THEN [db |-> d, resp |-> Response("destroy", user, r, "NotAuthenticated", {})]
  ELSE IF r \notin RecipeIdsOf(d)
  THEN [db |-> d, resp |-> Response("destroy", user, r, "NotFound", {})]
  ELSE IF ~has_object_permission("DELETE", user, d.Recipe[r])
  THEN [db |-> d, resp |-> Response("destroy", user, r, "Forbidden", {})]
  ELSE [db |-> Recipe_delete(d, {r}),
        resp |-> Response("destroy", user, r, "NoContent", {})]

DeleteRecipe ==
  \E user \in Actors, r \in 1..db.seq.Recipe :
    LET out == RecipeViewSet_destroy(db, user, r)
    IN  db' = out.db /\ last' = out.resp

\* A user's account is deleted (the inherited UserViewSet.destroy, or the
\* admin site).
DeleteUser ==
  \E u \in db.User :
    /\ db' = User_delete(db, u)
    /\ last' = Response("delete_user", u, u, "NoContent", {})

(***************************************************************************)
(* The subscription feed: UserViewSet.subscriptions.                       *)
(***************************************************************************)
\* A query parameter is absent or a string; int() of the digit strings in use.
NoParam == "absent"
int == [s \in {"0", "1", "2"} |->
          CASE s = "0" -> 0 [] s = "1" -> 1 [] s = "2" -> 2]
isdigit(p) == p \in DOMAIN int
Params == {NoParam, "x", "0", "1", "2"}

\* Usernames in User.Meta.ordering order.
UsernameOrd == [u1 |-> 1, u2 |-> 2]

\* User.objects.filter(following__user=user): the users who are the author
\* of a Follow row whose user is `user`, in username order.
RECURSIVE ByUsername(_)
ByUsername(us) ==
  IF us = {} THEN <<>>
  ELSE LET first == CHOOSE u \in us : \A v \in us : UsernameOrd[u] <= UsernameOrd[v]
       IN  <<first>> \o ByUsername(us \ {first})

subscriptions_queryset(d, user) ==
  ByUsername({u \in d.User :
                \E row \in Rows(d.Follow) : row.author = u /\ row.user = user})

\* The recipes of an author, read as the rows whose Recipe.author is the user.
recipes_of(d, obj) == {r \in RecipeIdsOf(d) : d.Recipe[r].author = obj}

\* order_by_pub_date in ascending order.
order_by_pub_date_asc(d, rs) ==
  LET n == Cardinality(rs)
  IN  CHOOSE s \in [1..n -> rs] :
        \A i, j \in 1..n : i < j => d.Recipe[s[i]].pub_date < d.Recipe[s[j]].pub_date

\* Recipe.objects.order_by('-pub_date'), which is also Recipe.Meta.ordering.
order_by_pub_date(d, rs) ==
  LET n == Cardinality(rs)
  IN  CHOOSE s \in [1..n -> rs] :
        \A i, j \in 1..n : i < j => d.Recipe[s[i]].pub_date > d.Recipe[s[j]].pub_date

\* queryset[:n]
slice(s, n) == SubSeq(s, 1, IF n < Len(s) THEN n ELSE Len(s))

\* recipes_set as it would be on a nullable ForeignKey: the recipes of the
\* user that are not among objs are taken from the user.
recipes_set_replacing(d, user, objs) ==
  [d EXCEPT !.Recipe =
     [r \in DOMAIN @ |->
        IF \E i \in 1..Len(objs) : objs[i] = r
        THEN [@[r] EXCEPT !.author = user]
        ELSE IF @[r].author = user THEN [@[r] EXCEPT !.author = "null"]
        ELSE @[r]]]

\* user.recipes.set(objs) on the reverse side of a ForeignKey that is not
\* nullable: it adds, that is, it writes author = user on each of objs.
recipes_set(d, user, objs) ==
  [d EXCEPT !.Recipe =
     [r \in DOMAIN @ |->
        IF \E i \in 1..Len(objs) : objs[i] = r
        THEN [@[r] EXCEPT !.author = user] ELSE @[r]]]

\* The loop of subscriptions over the queryset when `limit` is a digit string.
RECURSIVE limit_loop(_, _, _, _)
limit_loop(d, queryset, i, limit) ==
  IF i > Len(queryset) THEN d
  ELSE limit_loop(
         recipes_set(d, queryset[i],
                     slice(order_by_pub_date(d, recipes_of(d, queryset[i])), limit)),
         queryset, i + 1, limit)

\* FollowSerializer.get_recipes_count
get_recipes_count(d, obj) == Cardinality(recipes_of(d, obj))

\* FollowSerializer.get_recipes
get_recipes(d, obj, recipes_limit) ==
  LET recipes == order_by_pub_date(d, recipes_of(d, obj))
  IN  IF recipes_limit # NoParam /\ isdigit(recipes_limit)
      THEN slice(recipes, int[recipes_limit]) ELSE recipes

\* UserViewSet.subscriptions: the database after it and the response.
subscriptions(d, user, limit, recipes_limit) ==
  IF user = Anon
  THEN [db |-> d, resp |-> Response("subscriptions", user, 0, "NotAuthenticated", {})]
  ELSE LET queryset == subscriptions_queryset(d, user)
           d1 == IF limit # NoParam /\ isdigit(limit)
                 THEN limit_loop(d, queryset, 1, int[limit]) ELSE d
       IN  [db |-> d1,
            resp |-> Reply("subscriptions", user,
                           [limit |-> limit, recipes_limit |-> recipes_limit],
                           "OK", {},
                           [i \in 1..Len(queryset) |->
                              [id |-> queryset[i],
                               recipes_count |-> get_recipes_count(d1, queryset[i]),
                               recipes |-> get_recipes(d1, queryset[i], recipes_limit)]])]

Subscriptions ==
  \E user \in Actors, limit \in Params, recipes_limit \in Params :
    LET out == subscriptions(db, user, limit, recipes_limit)
    IN  db' = out.db /\ last' = out.resp

(***************************************************************************)
(* The site: recipes, relations, deletions and the two reads together.     *)
(***************************************************************************)
\* The caller of a request is anonymous or an existing user.
Authentic == last'.user \in db.User \cup {Anon}

NextSite ==
  /\ ops < MaxSiteOps
  /\ ops' = ops + 1
  /\ UNCHANGED inflight
  /\ \/ SeedRecipe(Users, {BaseDraft}, MaxSiteRecipes)
     \/ AddRelation /\ UNCHANGED clock
     \/ RemoveRelation /\ UNCHANGED clock
     \/ DeleteRecipe /\ UNCHANGED clock
     \/ DeleteUser /\ UNCHANGED clock
     \/ Download /\ UNCHANGED clock
     \/ Subscriptions /\ UNCHANGED clock
  /\ Authentic

SpecSite == Init /\ [][NextSite]_vars

(***************************************************************************)
(* A recipe update statement by statement, with reads in between.  update  *)
(* is not wrapped in a transaction: each statement commits on its own.     *)
(***************************************************************************)
\* RecipeViewSet.retrieve / list: what RecipeReadSerializer shows of a recipe.
to_representation(d, r) ==
  [name |-> d.Recipe[r].name, tags |-> TagsOf(d, r), ingredients |-> LineView(d, r)]

RecipeViewSet_retrieve(d, user, r) ==
  IF r \notin RecipeIdsOf(d) THEN Response("retrieve", user, r, "NotFound", {})
  ELSE Reply("retrieve", user, r, "OK", {}, to_representation(d, r))

Retrieve ==
  \E user \in Actors, r \in 1..db.seq.Recipe :
    /\ last' = RecipeViewSet_retrieve(db, user, r)
    /\ UNCHANGED db

\* The part of an update request before serializer.save(): the response it
\* ends with, or "pass".
update_check(d, user, r, method, patch) ==
  IF ~has_permission(method, user)
  THEN Response("update", user, r, "NotAuthenticated", {})
  ELSE IF r \notin RecipeIdsOf(d)
  THEN Response("update", user, r, "NotFound", {})
  ELSE IF ~has_object_permission(method, user, d.Recipe[r])
  THEN Response("update", user, r, "Forbidden", {})
  ELSE IF run_validation(patch, method = "PATCH") # {}
  THEN Response("update", user, r, "ValidationFailed",
                run_validation(patch, method = "PATCH"))
  ELSE Response("update", user, r, "pass", {})

\* The statements of RecipeWriteSerializer.update that write, in order.
UpdateSteps == <<"tags", "clear", "lines", "save">>

update_step(d, r, vd, pc) ==
  CASE pc = "tags" ->
         Ok(IF "tags" \in DOMAIN vd THEN tags_set(d, r, vd.tags) ELSE d)
    [] pc = "clear" ->
         Ok(IF "ingredients" \in DOMAIN vd THEN ingredients_clear(d, r) ELSE d)
    [] pc = "lines" ->
         IF "ingredients" \in DOMAIN vd
         THEN add_ingredients(d, vd.ingredients, r) ELSE Ok(d)
    [] pc = "save" ->
         Ok([d EXCEPT !.Recipe[r] =
               [@ EXCEPT !.name = Get(vd, "name", @),
                         !.text = Get(vd, "text", @),
                         !.cooking_time = Get(vd, "cooking_time", @),
                         !.image = IF "image" \in DOMAIN vd
                                   THEN vd.image.picture ELSE @]])

IsoPatches ==
  {[tags |-> <<"t2">>, ingredients |-> <<Ing("i2", 2)>>],
   [tags |-> <<"t2">>, ingredients |-> <<Ing("i1", 2), Ing("i3", 1)>>],
   [tags |-> <<"t1", "t2">>, ingredients |-> <<Ing("i2", 1), Ing("i3", 2)>>,
    name |-> "n2"],
   [name |-> "n2"]}

BeginUpdate ==
  \E q \in Slots \ DOMAIN inflight, user \in Actors, r \in 1..db.seq.Recipe,
       patch \in IsoPatches :
    LET checked == update_check(db, user, r, "PATCH", patch)
    IN  IF checked.status = "pass"
        THEN /\ inflight' = [k \in DOMAIN inflight \cup {q} |->
                               IF k = q
                               THEN [kind |-> "update", user |-> user,
                                     target |-> r, patch |-> patch, pc |-> 1,
                                     before |-> db]
                               ELSE inflight[k]]
             /\ UNCHANGED <<db, last, ops>>
        ELSE /\ last' = checked
             /\ ops' = ops + 1
             /\ UNCHANGED <<db, inflight>>

StepUpdate ==
  \E q \in DOMAIN inflight :
    LET job == inflight[q]
        out == update_step(db, job.target, job.patch, UpdateSteps[job.pc])
        done == out.exc # "none" \/ job.pc = Len(UpdateSteps)
    IN  /\ db' = out.db
        /\ IF done
           THEN /\ inflight' = [k \in DOMAIN inflight \ {q} |-> inflight[k]]
                /\ last' = Response("update", job.user, job.target,
                                     IF out.exc = "none" THEN "OK"
                                     ELSE "ServerError", {})
                /\ ops' = ops + 1
           ELSE /\ inflight' = [inflight EXCEPT ![q].pc = @ + 1]
                /\ UNCHANGED <<last, ops>>

NextIso ==
  \/ /\ ops < MaxIsoOps
     /\ SeedRecipe({"u1"}, {BaseDraft}, 1)
     /\ ops' = ops + 1
     /\ UNCHANGED inflight
  \/ /\ ops + Cardinality(DOMAIN inflight) < MaxIsoOps
     /\ DOMAIN inflight = {}
     /\ BeginUpdate
     /\ UNCHANGED clock
  \/ StepUpdate /\ UNCHANGED clock
  \/ /\ ops < MaxIsoOps
     /\ AddRelationOf({"ShoppingCart"})
     /\ ops' = ops + 1
     /\ UNCHANGED <<clock, inflight>>
  \/ /\ ops < MaxIsoOps
     /\ Retrieve
     /\ ops' = ops + 1
     /\ UNCHANGED <<clock, inflight>>
  \/ /\ ops < MaxIsoOps
     /\ Download
     /\ ops' = ops + 1
     /\ UNCHANGED <<clock, inflight>>

SpecIso == Init /\ [][NextIso]_vars

StepsAgreeWithUpdate ==
  [][(/\ Handled /\ last'.op = "update" /\ last'.status \in {"OK", "ServerError"}
      /\ DOMAIN inflight # {})
     => \A q \in DOMAIN inflight :
          LET job == inflight[q]
          IN  db'.Recipe = update(job.before, job.target, job.user, job.patch).db.Recipe
              /\ db'.Recipe_tags =
                   update(job.before, job.target, job.user, job.patch).db.Recipe_tags
              /\ db'.IngredientInRecipe =
                   update(job.before, job.target, job.user,
                          job.patch).db.IngredientInRecipe]_vars

(***************************************************************************)
(* Properties of the site (SpecSite).                                      *)
(***************************************************************************)
\* C13: a shopping-list download leaves every table as it was: the cart
\* rows, the recipes, their lines, the favourites and the follows.
C13_DownloadChangesNothing ==
  [][(Handled /\ last'.op = "download_shopping_cart") => db' = db]_vars

\* C13 witness: a list was downloaded while the cart, the favourites and the
\* follows all held rows.
C13_Witness ==
  /\ last.op = "download_shopping_cart" /\ last.status = "OK"
  /\ Len(last.body) > 0
  /\ \E i \in 1..Len(db.ShoppingCart) : db.ShoppingCart[i].user = last.user
  /\ db.Favourites # <<>>
  /\ db.Follow # <<>>

\* C14: no row is orphaned.  Every recipe's author is a user; every tag row,
\* ingredient line and through row belongs to a recipe; every Follow row
\* joins two users; every Favourites and ShoppingCart row joins a user and a
\* recipe.  A deleted user or recipe is gone after the request.
C14_NoOrphanRows ==
  /\ \A r \in RecipeIdsOf(db) : db.Recipe[r].author \in db.User
  /\ \A p \in db.Recipe_tags : p[1] \in RecipeIdsOf(db)
  /\ \A l \in db.IngredientInRecipe : l.recipe \in RecipeIdsOf(db)
  /\ \A l \in db.RecipeIngredient : l.recipe \in RecipeIdsOf(db)
  /\ \A row \in Rows(db.Follow) : row.user \in db.User /\ row.author \in db.User
  /\ \A kind \in {"Favourites", "ShoppingCart"} :
       \A row \in Rows(Table(db, kind)) :
         row.user \in db.User /\ row.recipe \in RecipeIdsOf(db)
  /\ (last.op = "delete_user" /\ last.status = "NoContent")
       => last.target \notin db.User
  /\ (last.op = "destroy" /\ last.status = "NoContent")
       => last.target \notin RecipeIdsOf(db)

\* C14 witness: a user who had authored a recipe was deleted in the request
\* after the one that created it: the recipe, its tags and its lines are
\* gone with the user.
C14_Witness ==
  /\ last.op = "delete_user"
  /\ ops = 2
  /\ db.seq.Recipe = 2
  /\ RecipeIdsOf(db) = {}
  /\ db.IngredientInRecipe = {} /\ db.Recipe_tags = {}
  /\ db.User # {}
  /\ db.Follow = <<>> /\ db.Favourites = <<>> /\ db.ShoppingCart = <<>>

Followed(d, user) == {u \in d.User : Exists(d.Follow, Row("Follow", user, u))}

\* C18: the feed answered to a user has one entry for each user they follow
\* and no other; an entry's recipes_count is the number of recipes its user
\* authored; its recipes are recipes of that user in descending pub_date
\* order, all of them when no recipes limit is given, and the `limit` most
\* recent ones when a limit is given.
C18_FeedListsFollowed ==
  (last.op = "subscriptions" /\ last.status = "OK") =>
    LET body == last.body
        given == last.target.recipes_limit
    IN  /\ {body[i].id : i \in 1..Len(body)} = Followed(db, last.user)
        /\ \A i, j \in 1..Len(body) : body[i].id = body[j].id => i = j
        /\ \A i \in 1..Len(body) :
             LET all == recipes_of(db, body[i].id)
                 shown == body[i].recipes
                 n == Cardinality(all)
             IN  /\ body[i].recipes_count = n
                 /\ \A k \in 1..Len(shown) : shown[k] \in all
                 /\ \A k, m \in 1..Len(shown) :
                      k < m => db.Recipe[shown[k]].pub_date
                                 > db.Recipe[shown[m]].pub_date
                 /\ given = NoParam => Len(shown) = n
                 /\ isdigit(given) =>
                      /\ Len(shown) = (IF int[given] < n THEN int[given] ELSE n)
                      /\ \A r \in all :
                           (\A k \in 1..Len(shown) : shown[k] # r)
                           => \A k \in 1..Len(shown) :
                                db.Recipe[r].pub_date < db.Recipe[shown[k]].pub_date

\* C18 witness: a followed author with two recipes shown with a limit of
\* one: the entry counts two and lists the later one.
C18_Witness ==
  /\ last.op = "subscriptions" /\ last.status = "OK"
  /\ last.target.recipes_limit = "1"
  /\ Len(last.body) = 1
  /\ last.body[1].recipes_count = 2
  /\ last.body[1].recipes = <<2>>

\* C21: listing a user's subscriptions changes nothing, with or without a
\* limit parameter: every recipe is still there with the same author, every
\* followed author has the same recipes and the same number of them, and
\* every table is as it was.
C21_SubscriptionsChangeNothing ==
  [][(Handled /\ last'.op = "subscriptions")
     => /\ RecipeIdsOf(db') = RecipeIdsOf(db)
        /\ \A r \in RecipeIdsOf(db) : db'.Recipe[r].author = db.Recipe[r].author
        /\ \A u \in Followed(db, last'.user) :
             /\ recipes_of(db', u) = recipes_of(db, u)
             /\ get_recipes_count(db', u) = get_recipes_count(db, u)
        /\ db' = db]_vars

\* C21 witness: the feed was listed with limit 1 for a user who follows an
\* author of two recipes; the author still has both.
C21_Witness ==
  /\ last.op = "subscriptions" /\ last.status = "OK"
  /\ last.target.limit = "1"
  /\ Len(last.body) = 1
  /\ Cardinality(recipes_of(db, last.body[1].id)) = 2

(***************************************************************************)
(* Recipe writes of every kind: create, update and delete.                 *)
(***************************************************************************)
NextWrite ==
  \/ CreateRecipe
  \/ UpdateRecipe
  \/ /\ ops < MaxOps
     /\ DeleteRecipe
     /\ ops' = ops + 1
     /\ UNCHANGED <<clock, inflight>>

SpecWrite == Init /\ [][NextWrite]_vars

WriteOps == {"create", "update", "destroy"}

\* C22: a create, update or delete request of an unauthenticated caller is
\* refused and changes nothing; a delete request of an authenticated user
\* who is not the recipe's author is refused and changes nothing; and a
\* recipe disappears only through a delete request of its author.
C22_DeleteOnlyByAuthor ==
  [][/\ (Handled /\ last'.op \in WriteOps /\ last'.user = Anon)
        => (last'.status = "NotAuthenticated" /\ db' = db)
     /\ (/\ Handled /\ last'.op = "destroy" /\ last'.user \in Users
         /\ last'.target \in RecipeIdsOf(db)
         /\ last'.user # Author(last'.target))
        => (last'.status = "Forbidden" /\ db' = db)
     /\ \A r \in RecipeIdsOf(db) \ RecipeIdsOf(db') :
          /\ last'.op = "destroy" /\ last'.status = "NoContent"
          /\ last'.target = r
          /\ last'.user = Author(r)]_vars

\* C22 witness: a user who is not the author asked to delete a recipe and
\* was refused; the recipe, its tags and its lines are there.
C22_Witness ==
  /\ last.op = "destroy" /\ last.status = "Forbidden"
  /\ last.user \in Users
  /\ last.target \in RecipeIdsOf(db)
  /\ last.user # Author(last.target)
  /\ TagsOf(db, last.target) # {}
  /\ LinesOf(db, last.target) # {}

====
